---- MODULE Spec2Model ----
(***************************************************************************)
(* Model of Bikeshare.py: the interactive bikeshare statistics script.     *)
(*                                                                         *)
(* A Python str is the sequence of its code points, so that strip(),       *)
(* lower(), concatenation and the code-point ordering used by              *)
(* Series.mode() are computed rather than assumed.  A missing CSV field    *)
(* (pandas NaN) is the empty sequence; a finite float64 is a pair          *)
(* <<numerator, denominator>>.  A DataFrame is a record of its column      *)
(* names, its index labels and its rows, each row a function from column   *)
(* name to value.                                                          *)
(***************************************************************************)
EXTENDS Integers, Sequences, FiniteSets, TLC

VARIABLES
    files,      \* the data files: path -> parsed CSV table
    pc,         \* position of the program
    city,       \* main: city
    month,      \* main: month
    day,        \* main: day
    df,         \* main: df, the table returned by load_data
    row_index,  \* display_raw_data: row_index
    raw,        \* the last line read by input()
    stdout,     \* what the current analysis session has printed
    err         \* the uncaught exception that ended the program, if any

vars == <<files, pc, city, month, day, df, row_index, raw, stdout, err>>

----------------------------------------------------------------------------
(* Bounds of the model *)

\* longest table drawn for the function-level specification
MaxRows == 3
\* most 'yes' answers to the raw-data prompt in one session
MaxPages == 3

----------------------------------------------------------------------------
(* Python str: a sequence of code points *)

\* the ranges <<first, last>> of the characters str.isspace() holds of,
\* which are the ones str.strip() removes
WHITESPACE ==
  { <<9, 13>>, <<28, 32>>, <<133, 133>>, <<160, 160>>, <<5760, 5760>>, <<8192, 8202>>,
    <<8232, 8233>>, <<8239, 8239>>, <<8287, 8287>>, <<12288, 12288>> }

isspace(c) == \E r \in WHITESPACE : r[1] <= c /\ c <= r[2]

\* the simple lowercase mapping of str.lower() (Unicode 14.0, CPython 3.11):
\* <<first, last, step, delta>> maps first, first + step, .., last to
\* themselves plus delta; every other character but U+0130 and U+03A3 is
\* its own lowercase
LOWER_RUNS ==
  { <<65, 90, 1, 32>>, <<192, 214, 1, 32>>, <<216, 222, 1, 32>>, <<256, 302, 2, 1>>,
    <<306, 310, 2, 1>>, <<313, 327, 2, 1>>, <<330, 374, 2, 1>>, <<376, 376, 1, -121>>,
    <<377, 381, 2, 1>>, <<385, 385, 1, 210>>, <<386, 388, 2, 1>>, <<390, 390, 1, 206>>,
    <<391, 391, 1, 1>>, <<393, 394, 1, 205>>, <<395, 395, 1, 1>>, <<398, 398, 1, 79>>,
    <<399, 399, 1, 202>>, <<400, 400, 1, 203>>, <<401, 401, 1, 1>>, <<403, 403, 1, 205>>,
    <<404, 404, 1, 207>>, <<406, 406, 1, 211>>, <<407, 407, 1, 209>>, <<408, 408, 1, 1>>,
    <<412, 412, 1, 211>>, <<413, 413, 1, 213>>, <<415, 415, 1, 214>>, <<416, 420, 2, 1>>,
    <<422, 422, 1, 218>>, <<423, 423, 1, 1>>, <<425, 425, 1, 218>>, <<428, 428, 1, 1>>,
    <<430, 430, 1, 218>>, <<431, 431, 1, 1>>, <<433, 434, 1, 217>>, <<435, 437, 2, 1>>,
    <<439, 439, 1, 219>>, <<440, 440, 1, 1>>, <<444, 444, 1, 1>>, <<452, 452, 1, 2>>,
    <<453, 453, 1, 1>>, <<455, 455, 1, 2>>, <<456, 456, 1, 1>>, <<458, 458, 1, 2>>,
    <<459, 475, 2, 1>>, <<478, 494, 2, 1>>, <<497, 497, 1, 2>>, <<498, 500, 2, 1>>,
    <<502, 502, 1, -97>>, <<503, 503, 1, -56>>, <<504, 542, 2, 1>>, <<544, 544, 1, -130>>,
    <<546, 562, 2, 1>>, <<570, 570, 1, 10795>>, <<571, 571, 1, 1>>, <<573, 573, 1, -163>>,
    <<574, 574, 1, 10792>>, <<577, 577, 1, 1>>, <<579, 579, 1, -195>>, <<580, 580, 1, 69>>,
    <<581, 581, 1, 71>>, <<582, 590, 2, 1>>, <<880, 882, 2, 1>>, <<886, 886, 1, 1>>,
    <<895, 895, 1, 116>>, <<902, 902, 1, 38>>, <<904, 906, 1, 37>>, <<908, 908, 1, 64>>,
    <<910, 911, 1, 63>>, <<913, 929, 1, 32>>, <<932, 939, 1, 32>>, <<975, 975, 1, 8>>,
    <<984, 1006, 2, 1>>, <<1012, 1012, 1, -60>>, <<1015, 1015, 1, 1>>, <<1017, 1017, 1, -7>>,
    <<1018, 1018, 1, 1>>, <<1021, 1023, 1, -130>>, <<1024, 1039, 1, 80>>, <<1040, 1071, 1, 32>>,
    <<1120, 1152, 2, 1>>, <<1162, 1214, 2, 1>>, <<1216, 1216, 1, 15>>, <<1217, 1229, 2, 1>>,
    <<1232, 1326, 2, 1>>, <<1329, 1366, 1, 48>>, <<4256, 4293, 1, 7264>>, <<4295, 4295, 1, 7264>>,
    <<4301, 4301, 1, 7264>>, <<5024, 5103, 1, 38864>>, <<5104, 5109, 1, 8>>, <<7312, 7354, 1, -3008>>,
    <<7357, 7359, 1, -3008>>, <<7680, 7828, 2, 1>>, <<7838, 7838, 1, -7615>>, <<7840, 7934, 2, 1>>,
    <<7944, 7951, 1, -8>>, <<7960, 7965, 1, -8>>, <<7976, 7983, 1, -8>>, <<7992, 7999, 1, -8>>,
    <<8008, 8013, 1, -8>>, <<8025, 8031, 2, -8>>, <<8040, 8047, 1, -8>>, <<8072, 8079, 1, -8>>,
    <<8088, 8095, 1, -8>>, <<8104, 8111, 1, -8>>, <<8120, 8121, 1, -8>>, <<8122, 8123, 1, -74>>,
    <<8124, 8124, 1, -9>>, <<8136, 8139, 1, -86>>, <<8140, 8140, 1, -9>>, <<8152, 8153, 1, -8>>,
    <<8154, 8155, 1, -100>>, <<8168, 8169, 1, -8>>, <<8170, 8171, 1, -112>>, <<8172, 8172, 1, -7>>,
    <<8184, 8185, 1, -128>>, <<8186, 8187, 1, -126>>, <<8188, 8188, 1, -9>>, <<8486, 8486, 1, -7517>>,
    <<8490, 8490, 1, -8383>>, <<8491, 8491, 1, -8262>>, <<8498, 8498, 1, 28>>, <<8544, 8559, 1, 16>>,
    <<8579, 8579, 1, 1>>, <<9398, 9423, 1, 26>>, <<11264, 11311, 1, 48>>, <<11360, 11360, 1, 1>>,
    <<11362, 11362, 1, -10743>>, <<11363, 11363, 1, -3814>>, <<11364, 11364, 1, -10727>>, <<11367, 11371, 2, 1>>,
    <<11373, 11373, 1, -10780>>, <<11374, 11374, 1, -10749>>, <<11375, 11375, 1, -10783>>, <<11376, 11376, 1, -10782>>,
    <<11378, 11378, 1, 1>>, <<11381, 11381, 1, 1>>, <<11390, 11391, 1, -10815>>, <<11392, 11490, 2, 1>>,
    <<11499, 11501, 2, 1>>, <<11506, 11506, 1, 1>>, <<42560, 42604, 2, 1>>, <<42624, 42650, 2, 1>>,
    <<42786, 42798, 2, 1>>, <<42802, 42862, 2, 1>>, <<42873, 42875, 2, 1>>, <<42877, 42877, 1, -35332>>,
    <<42878, 42886, 2, 1>>, <<42891, 42891, 1, 1>>, <<42893, 42893, 1, -42280>>, <<42896, 42898, 2, 1>>,
    <<42902, 42920, 2, 1>>, <<42922, 42922, 1, -42308>>, <<42923, 42923, 1, -42319>>, <<42924, 42924, 1, -42315>>,
    <<42925, 42925, 1, -42305>>, <<42926, 42926, 1, -42308>>, <<42928, 42928, 1, -42258>>, <<42929, 42929, 1, -42282>>,
    <<42930, 42930, 1, -42261>>, <<42931, 42931, 1, 928>>, <<42932, 42946, 2, 1>>, <<42948, 42948, 1, -48>>,
    <<42949, 42949, 1, -42307>>, <<42950, 42950, 1, -35384>>, <<42951, 42953, 2, 1>>, <<42960, 42960, 1, 1>>,
    <<42966, 42968, 2, 1>>, <<42997, 42997, 1, 1>>, <<65313, 65338, 1, 32>>, <<66560, 66599, 1, 40>>,
    <<66736, 66771, 1, 40>>, <<66928, 66938, 1, 39>>, <<66940, 66954, 1, 39>>, <<66956, 66962, 1, 39>>,
    <<66964, 66965, 1, 39>>, <<68736, 68786, 1, 64>>, <<71840, 71871, 1, 32>>, <<93760, 93791, 1, 32>>,
    <<125184, 125217, 1, 34>> }

\* the ranges of the case-ignorable characters
CASE_IGNORABLE ==
  { <<39, 39>>, <<46, 46>>, <<58, 58>>, <<94, 94>>, <<96, 96>>, <<168, 168>>,
    <<173, 173>>, <<175, 175>>, <<180, 180>>, <<183, 184>>, <<688, 879>>, <<884, 885>>,
    <<890, 890>>, <<900, 901>>, <<903, 903>>, <<1155, 1161>>, <<1369, 1369>>, <<1375, 1375>>,
    <<1425, 1469>>, <<1471, 1471>>, <<1473, 1474>>, <<1476, 1477>>, <<1479, 1479>>, <<1524, 1524>>,
    <<1536, 1541>>, <<1552, 1562>>, <<1564, 1564>>, <<1600, 1600>>, <<1611, 1631>>, <<1648, 1648>>,
    <<1750, 1757>>, <<1759, 1768>>, <<1770, 1773>>, <<1807, 1807>>, <<1809, 1809>>, <<1840, 1866>>,
    <<1958, 1968>>, <<2027, 2037>>, <<2042, 2042>>, <<2045, 2045>>, <<2070, 2093>>, <<2137, 2139>>,
    <<2184, 2184>>, <<2192, 2193>>, <<2200, 2207>>, <<2249, 2306>>, <<2362, 2362>>, <<2364, 2364>>,
    <<2369, 2376>>, <<2381, 2381>>, <<2385, 2391>>, <<2402, 2403>>, <<2417, 2417>>, <<2433, 2433>>,
    <<2492, 2492>>, <<2497, 2500>>, <<2509, 2509>>, <<2530, 2531>>, <<2558, 2558>>, <<2561, 2562>>,
    <<2620, 2620>>, <<2625, 2626>>, <<2631, 2632>>, <<2635, 2637>>, <<2641, 2641>>, <<2672, 2673>>,
    <<2677, 2677>>, <<2689, 2690>>, <<2748, 2748>>, <<2753, 2757>>, <<2759, 2760>>, <<2765, 2765>>,
    <<2786, 2787>>, <<2810, 2815>>, <<2817, 2817>>, <<2876, 2876>>, <<2879, 2879>>, <<2881, 2884>>,
    <<2893, 2893>>, <<2901, 2902>>, <<2914, 2915>>, <<2946, 2946>>, <<3008, 3008>>, <<3021, 3021>>,
    <<3072, 3072>>, <<3076, 3076>>, <<3132, 3132>>, <<3134, 3136>>, <<3142, 3144>>, <<3146, 3149>>,
    <<3157, 3158>>, <<3170, 3171>>, <<3201, 3201>>, <<3260, 3260>>, <<3263, 3263>>, <<3270, 3270>>,
    <<3276, 3277>>, <<3298, 3299>>, <<3328, 3329>>, <<3387, 3388>>, <<3393, 3396>>, <<3405, 3405>>,
    <<3426, 3427>>, <<3457, 3457>>, <<3530, 3530>>, <<3538, 3540>>, <<3542, 3542>>, <<3633, 3633>>,
    <<3636, 3642>>, <<3654, 3662>>, <<3761, 3761>>, <<3764, 3772>>, <<3782, 3782>>, <<3784, 3789>>,
    <<3864, 3865>>, <<3893, 3893>>, <<3895, 3895>>, <<3897, 3897>>, <<3953, 3966>>, <<3968, 3972>>,
    <<3974, 3975>>, <<3981, 3991>>, <<3993, 4028>>, <<4038, 4038>>, <<4141, 4144>>, <<4146, 4151>>,
    <<4153, 4154>>, <<4157, 4158>>, <<4184, 4185>>, <<4190, 4192>>, <<4209, 4212>>, <<4226, 4226>>,
    <<4229, 4230>>, <<4237, 4237>>, <<4253, 4253>>, <<4348, 4348>>, <<4957, 4959>>, <<5906, 5908>>,
    <<5938, 5939>>, <<5970, 5971>>, <<6002, 6003>>, <<6068, 6069>>, <<6071, 6077>>, <<6086, 6086>>,
    <<6089, 6099>>, <<6103, 6103>>, <<6109, 6109>>, <<6155, 6159>>, <<6211, 6211>>, <<6277, 6278>>,
    <<6313, 6313>>, <<6432, 6434>>, <<6439, 6440>>, <<6450, 6450>>, <<6457, 6459>>, <<6679, 6680>>,
    <<6683, 6683>>, <<6742, 6742>>, <<6744, 6750>>, <<6752, 6752>>, <<6754, 6754>>, <<6757, 6764>>,
    <<6771, 6780>>, <<6783, 6783>>, <<6823, 6823>>, <<6832, 6862>>, <<6912, 6915>>, <<6964, 6964>>,
    <<6966, 6970>>, <<6972, 6972>>, <<6978, 6978>>, <<7019, 7027>>, <<7040, 7041>>, <<7074, 7077>>,
    <<7080, 7081>>, <<7083, 7085>>, <<7142, 7142>>, <<7144, 7145>>, <<7149, 7149>>, <<7151, 7153>>,
    <<7212, 7219>>, <<7222, 7223>>, <<7288, 7293>>, <<7376, 7378>>, <<7380, 7392>>, <<7394, 7400>>,
    <<7405, 7405>>, <<7412, 7412>>, <<7416, 7417>>, <<7468, 7530>>, <<7544, 7544>>, <<7579, 7679>>,
    <<8125, 8125>>, <<8127, 8129>>, <<8141, 8143>>, <<8157, 8159>>, <<8173, 8175>>, <<8189, 8190>>,
    <<8203, 8207>>, <<8216, 8217>>, <<8228, 8228>>, <<8231, 8231>>, <<8234, 8238>>, <<8288, 8292>>,
    <<8294, 8303>>, <<8305, 8305>>, <<8319, 8319>>, <<8336, 8348>>, <<8400, 8432>>, <<11388, 11389>>,
    <<11503, 11505>>, <<11631, 11631>>, <<11647, 11647>>, <<11744, 11775>>, <<11823, 11823>>, <<12293, 12293>>,
    <<12330, 12333>>, <<12337, 12341>>, <<12347, 12347>>, <<12441, 12446>>, <<12540, 12542>>, <<40981, 40981>>,
    <<42232, 42237>>, <<42508, 42508>>, <<42607, 42610>>, <<42612, 42621>>, <<42623, 42623>>, <<42652, 42655>>,
    <<42736, 42737>>, <<42752, 42785>>, <<42864, 42864>>, <<42888, 42890>>, <<42994, 42996>>, <<43000, 43001>>,
    <<43010, 43010>>, <<43014, 43014>>, <<43019, 43019>>, <<43045, 43046>>, <<43052, 43052>>, <<43204, 43205>>,
    <<43232, 43249>>, <<43263, 43263>>, <<43302, 43309>>, <<43335, 43345>>, <<43392, 43394>>, <<43443, 43443>>,
    <<43446, 43449>>, <<43452, 43453>>, <<43471, 43471>>, <<43493, 43494>>, <<43561, 43566>>, <<43569, 43570>>,
    <<43573, 43574>>, <<43587, 43587>>, <<43596, 43596>>, <<43632, 43632>>, <<43644, 43644>>, <<43696, 43696>>,
    <<43698, 43700>>, <<43703, 43704>>, <<43710, 43711>>, <<43713, 43713>>, <<43741, 43741>>, <<43756, 43757>>,
    <<43763, 43764>>, <<43766, 43766>>, <<43867, 43871>>, <<43881, 43883>>, <<44005, 44005>>, <<44008, 44008>>,
    <<44013, 44013>>, <<64286, 64286>>, <<64434, 64450>>, <<65024, 65039>>, <<65043, 65043>>, <<65056, 65071>>,
    <<65106, 65106>>, <<65109, 65109>>, <<65279, 65279>>, <<65287, 65287>>, <<65294, 65294>>, <<65306, 65306>>,
    <<65342, 65342>>, <<65344, 65344>>, <<65392, 65392>>, <<65438, 65439>>, <<65507, 65507>>, <<65529, 65531>>,
    <<66045, 66045>>, <<66272, 66272>>, <<66422, 66426>>, <<67456, 67461>>, <<67463, 67504>>, <<67506, 67514>>,
    <<68097, 68099>>, <<68101, 68102>>, <<68108, 68111>>, <<68152, 68154>>, <<68159, 68159>>, <<68325, 68326>>,
    <<68900, 68903>>, <<69291, 69292>>, <<69446, 69456>>, <<69506, 69509>>, <<69633, 69633>>, <<69688, 69702>>,
    <<69744, 69744>>, <<69747, 69748>>, <<69759, 69761>>, <<69811, 69814>>, <<69817, 69818>>, <<69821, 69821>>,
    <<69826, 69826>>, <<69837, 69837>>, <<69888, 69890>>, <<69927, 69931>>, <<69933, 69940>>, <<70003, 70003>>,
    <<70016, 70017>>, <<70070, 70078>>, <<70089, 70092>>, <<70095, 70095>>, <<70191, 70193>>, <<70196, 70196>>,
    <<70198, 70199>>, <<70206, 70206>>, <<70367, 70367>>, <<70371, 70378>>, <<70400, 70401>>, <<70459, 70460>>,
    <<70464, 70464>>, <<70502, 70508>>, <<70512, 70516>>, <<70712, 70719>>, <<70722, 70724>>, <<70726, 70726>>,
    <<70750, 70750>>, <<70835, 70840>>, <<70842, 70842>>, <<70847, 70848>>, <<70850, 70851>>, <<71090, 71093>>,
    <<71100, 71101>>, <<71103, 71104>>, <<71132, 71133>>, <<71219, 71226>>, <<71229, 71229>>, <<71231, 71232>>,
    <<71339, 71339>>, <<71341, 71341>>, <<71344, 71349>>, <<71351, 71351>>, <<71453, 71455>>, <<71458, 71461>>,
    <<71463, 71467>>, <<71727, 71735>>, <<71737, 71738>>, <<71995, 71996>>, <<71998, 71998>>, <<72003, 72003>>,
    <<72148, 72151>>, <<72154, 72155>>, <<72160, 72160>>, <<72193, 72202>>, <<72243, 72248>>, <<72251, 72254>>,
    <<72263, 72263>>, <<72273, 72278>>, <<72281, 72283>>, <<72330, 72342>>, <<72344, 72345>>, <<72752, 72758>>,
    <<72760, 72765>>, <<72767, 72767>>, <<72850, 72871>>, <<72874, 72880>>, <<72882, 72883>>, <<72885, 72886>>,
    <<73009, 73014>>, <<73018, 73018>>, <<73020, 73021>>, <<73023, 73029>>, <<73031, 73031>>, <<73104, 73105>>,
    <<73109, 73109>>, <<73111, 73111>>, <<73459, 73460>>, <<78896, 78904>>, <<92912, 92916>>, <<92976, 92982>>,
    <<92992, 92995>>, <<94031, 94031>>, <<94095, 94111>>, <<94176, 94177>>, <<94179, 94180>>, <<110576, 110579>>,
    <<110581, 110587>>, <<110589, 110590>>, <<113821, 113822>>, <<113824, 113827>>, <<118528, 118573>>, <<118576, 118598>>,
    <<119143, 119145>>, <<119155, 119170>>, <<119173, 119179>>, <<119210, 119213>>, <<119362, 119364>>, <<121344, 121398>>,
    <<121403, 121452>>, <<121461, 121461>>, <<121476, 121476>>, <<121499, 121503>>, <<121505, 121519>>, <<122880, 122886>>,
    <<122888, 122904>>, <<122907, 122913>>, <<122915, 122916>>, <<122918, 122922>>, <<123184, 123197>>, <<123566, 123566>>,
    <<123628, 123631>>, <<125136, 125142>>, <<125252, 125259>>, <<127995, 127999>>, <<917505, 917505>>, <<917536, 917631>>,
    <<917760, 917999>> }

\* the ranges of the cased characters that are not case-ignorable
CASED ==
  { <<65, 90>>, <<97, 122>>, <<170, 170>>, <<181, 181>>, <<186, 186>>, <<192, 214>>,
    <<216, 246>>, <<248, 442>>, <<444, 447>>, <<452, 659>>, <<661, 687>>, <<880, 883>>,
    <<886, 887>>, <<891, 893>>, <<895, 895>>, <<902, 902>>, <<904, 906>>, <<908, 908>>,
    <<910, 929>>, <<931, 1013>>, <<1015, 1153>>, <<1162, 1327>>, <<1329, 1366>>, <<1376, 1416>>,
    <<4256, 4293>>, <<4295, 4295>>, <<4301, 4301>>, <<4304, 4346>>, <<4349, 4351>>, <<5024, 5109>>,
    <<5112, 5117>>, <<7296, 7304>>, <<7312, 7354>>, <<7357, 7359>>, <<7424, 7467>>, <<7531, 7543>>,
    <<7545, 7578>>, <<7680, 7957>>, <<7960, 7965>>, <<7968, 8005>>, <<8008, 8013>>, <<8016, 8023>>,
    <<8025, 8025>>, <<8027, 8027>>, <<8029, 8029>>, <<8031, 8061>>, <<8064, 8116>>, <<8118, 8124>>,
    <<8126, 8126>>, <<8130, 8132>>, <<8134, 8140>>, <<8144, 8147>>, <<8150, 8155>>, <<8160, 8172>>,
    <<8178, 8180>>, <<8182, 8188>>, <<8450, 8450>>, <<8455, 8455>>, <<8458, 8467>>, <<8469, 8469>>,
    <<8473, 8477>>, <<8484, 8484>>, <<8486, 8486>>, <<8488, 8488>>, <<8490, 8493>>, <<8495, 8500>>,
    <<8505, 8505>>, <<8508, 8511>>, <<8517, 8521>>, <<8526, 8526>>, <<8544, 8575>>, <<8579, 8580>>,
    <<9398, 9449>>, <<11264, 11387>>, <<11390, 11492>>, <<11499, 11502>>, <<11506, 11507>>, <<11520, 11557>>,
    <<11559, 11559>>, <<11565, 11565>>, <<42560, 42605>>, <<42624, 42651>>, <<42786, 42863>>, <<42865, 42887>>,
    <<42891, 42894>>, <<42896, 42954>>, <<42960, 42961>>, <<42963, 42963>>, <<42965, 42969>>, <<42997, 42998>>,
    <<43002, 43002>>, <<43824, 43866>>, <<43872, 43880>>, <<43888, 43967>>, <<64256, 64262>>, <<64275, 64279>>,
    <<65313, 65338>>, <<65345, 65370>>, <<66560, 66639>>, <<66736, 66771>>, <<66776, 66811>>, <<66928, 66938>>,
    <<66940, 66954>>, <<66956, 66962>>, <<66964, 66965>>, <<66967, 66977>>, <<66979, 66993>>, <<66995, 67001>>,
    <<67003, 67004>>, <<68736, 68786>>, <<68800, 68850>>, <<71840, 71903>>, <<93760, 93823>>, <<119808, 119892>>,
    <<119894, 119964>>, <<119966, 119967>>, <<119970, 119970>>, <<119973, 119974>>, <<119977, 119980>>, <<119982, 119993>>,
    <<119995, 119995>>, <<119997, 120003>>, <<120005, 120069>>, <<120071, 120074>>, <<120077, 120084>>, <<120086, 120092>>,
    <<120094, 120121>>, <<120123, 120126>>, <<120128, 120132>>, <<120134, 120134>>, <<120138, 120144>>, <<120146, 120485>>,
    <<120488, 120512>>, <<120514, 120538>>, <<120540, 120570>>, <<120572, 120596>>, <<120598, 120628>>, <<120630, 120654>>,
    <<120656, 120686>>, <<120688, 120712>>, <<120714, 120744>>, <<120746, 120770>>, <<120772, 120779>>, <<122624, 122633>>,
    <<122635, 122654>>, <<125184, 125251>>, <<127280, 127305>>, <<127312, 127337>>, <<127344, 127369>> }

is_case_ignorable(c) == \E r \in CASE_IGNORABLE : r[1] <= c /\ c <= r[2]

is_cased(c) == \E r \in CASED : r[1] <= c /\ c <= r[2]

char_lower(c) ==
  LET hits == {r \in LOWER_RUNS :
                 r[1] <= c /\ c <= r[2] /\ (c - r[1]) % r[3] = 0}
  IN IF hits = {} THEN c ELSE c + (CHOOSE r \in hits : TRUE)[4]

\* whether the capital sigma at position i is lowercased to the final sigma:
\* the nearest character before it that is not case-ignorable is cased, and
\* the nearest such character after it, if any, is not
final_sigma(s, i) ==
  LET before == {j \in 1..(i - 1) : ~is_case_ignorable(s[j])}
      after  == {j \in (i + 1)..Len(s) : ~is_case_ignorable(s[j])}
      j == CHOOSE x \in before : \A y \in before : y <= x
      k == CHOOSE x \in after : \A y \in after : x <= y
  IN /\ before # {}
     /\ is_cased(s[j])
     /\ after = {} \/ ~is_cased(s[k])

RECURSIVE lower_from(_, _)
lower_from(s, i) ==
  IF i > Len(s) THEN <<>>
  ELSE (IF s[i] = 931 THEN (IF final_sigma(s, i) THEN <<962>> ELSE <<963>>)
        ELSE IF s[i] = 304 THEN <<105, 775>>
        ELSE <<char_lower(s[i])>>) \o lower_from(s, i + 1)

\* str.lower()
str_lower(s) == lower_from(s, 1)

RECURSIVE str_lstrip(_)
str_lstrip(s) ==
  IF s # <<>> /\ isspace(Head(s)) THEN str_lstrip(Tail(s)) ELSE s

RECURSIVE str_rstrip(_)
str_rstrip(s) ==
  IF s # <<>> /\ isspace(s[Len(s)])
  THEN str_rstrip(SubSeq(s, 1, Len(s) - 1))
  ELSE s

\* str.strip()
str_strip(s) == str_rstrip(str_lstrip(s))

\* a < b for two str: lexicographic by code point
RECURSIVE str_lt(_, _)
str_lt(a, b) ==
  IF b = <<>> THEN FALSE
  ELSE IF a = <<>> THEN TRUE
  ELSE IF Head(a) = Head(b) THEN str_lt(Tail(a), Tail(b))
  ELSE Head(a) < Head(b)

----------------------------------------------------------------------------
(* Values of a column *)

NaN == <<>>

\* the float64 of an integer
Float(n) == <<n, 1>>

\* int(x) of a finite non-negative float64: truncation
float_to_int(x) == x[1] \div x[2]

float_lt(a, b) == a[1] * b[2] < b[1] * a[2]

\* a + b on the elements of object columns: missing if either is missing
object_add(a, b) == IF a = NaN \/ b = NaN THEN NaN ELSE a \o b

\* the dtype pandas gives each column
Dtype(column) ==
  IF column \in {"hour", "Trip Duration"} THEN "int64"
  ELSE IF column = "Birth Year" THEN "float64"
  ELSE IF column = "Start Time" THEN "datetime64"
  ELSE "object"

isna(column, v) == Dtype(column) \in {"float64", "object"} /\ v = NaN

\* the order np.sort puts the values of a column in
value_lt(column, a, b) ==
  IF Dtype(column) = "int64" THEN a < b
  ELSE IF Dtype(column) = "float64" THEN float_lt(a, b)
  ELSE str_lt(a, b)

----------------------------------------------------------------------------
(* Program constants *)

S_chicago == <<99, 104, 105, 99, 97, 103, 111>>   \* 'chicago'
S_new_york_city ==
  <<110, 101, 119, 32, 121, 111, 114, 107, 32, 99, 105, 116, 121>>   \* 'new york city'
S_washington == <<119, 97, 115, 104, 105, 110, 103, 116, 111, 110>>   \* 'washington'
S_all == <<97, 108, 108>>   \* 'all'
S_yes == <<121, 101, 115>>   \* 'yes'
S_no == <<110, 111>>   \* 'no'
S_to == <<32, 116, 111, 32>>   \* ' to '

CITY_DATA ==
  [c \in {S_chicago, S_new_york_city, S_washington} |->
     IF c = S_chicago THEN "/mnt/data/chicago.csv"
     ELSE IF c = S_new_york_city THEN "/mnt/data/new_york_city.csv"
     ELSE "/mnt/data/washington.csv"]

\* the valid_inputs of the month prompt
VALID_MONTHS ==
  { <<106, 97, 110, 117, 97, 114, 121>>,   \* 'january'
    <<102, 101, 98, 114, 117, 97, 114, 121>>,   \* 'february'
    <<109, 97, 114, 99, 104>>,   \* 'march'
    <<97, 112, 114, 105, 108>>,   \* 'april'
    <<109, 97, 121>>,   \* 'may'
    <<106, 117, 110, 101>>,   \* 'june'
    S_all }

\* the valid_inputs of the day prompt
VALID_DAYS ==
  { <<109, 111, 110, 100, 97, 121>>,   \* 'monday'
    <<116, 117, 101, 115, 100, 97, 121>>,   \* 'tuesday'
    <<119, 101, 100, 110, 101, 115, 100, 97, 121>>,   \* 'wednesday'
    <<116, 104, 117, 114, 115, 100, 97, 121>>,   \* 'thursday'
    <<102, 114, 105, 100, 97, 121>>,   \* 'friday'
    <<115, 97, 116, 117, 114, 100, 97, 121>>,   \* 'saturday'
    <<115, 117, 110, 100, 97, 121>>,   \* 'sunday'
    S_all }

\* the valid_inputs of the raw-data and restart prompts
YES_NO == {S_yes, S_no}

\* Timestamp.month_name()
MONTH_NAMES ==
  << <<74, 97, 110, 117, 97, 114, 121>>,   \* 'January'
     <<70, 101, 98, 114, 117, 97, 114, 121>>,   \* 'February'
     <<77, 97, 114, 99, 104>>,   \* 'March'
     <<65, 112, 114, 105, 108>>,   \* 'April'
     <<77, 97, 121>>,   \* 'May'
     <<74, 117, 110, 101>>,   \* 'June'
     <<74, 117, 108, 121>>,   \* 'July'
     <<65, 117, 103, 117, 115, 116>>,   \* 'August'
     <<83, 101, 112, 116, 101, 109, 98, 101, 114>>,   \* 'September'
     <<79, 99, 116, 111, 98, 101, 114>>,   \* 'October'
     <<78, 111, 118, 101, 109, 98, 101, 114>>,   \* 'November'
     <<68, 101, 99, 101, 109, 98, 101, 114>> >>   \* 'December'

\* Timestamp.day_name(), Monday first as Timestamp.weekday() counts
DAY_NAMES ==
  << <<77, 111, 110, 100, 97, 121>>,   \* 'Monday'
     <<84, 117, 101, 115, 100, 97, 121>>,   \* 'Tuesday'
     <<87, 101, 100, 110, 101, 115, 100, 97, 121>>,   \* 'Wednesday'
     <<84, 104, 117, 114, 115, 100, 97, 121>>,   \* 'Thursday'
     <<70, 114, 105, 100, 97, 121>>,   \* 'Friday'
     <<83, 97, 116, 117, 114, 100, 97, 121>>,   \* 'Saturday'
     <<83, 117, 110, 100, 97, 121>> >>   \* 'Sunday'

\* display_raw_data's default batch_size
batch_size == 5

----------------------------------------------------------------------------
(* DataFrame *)

\* the frame read_csv builds from a parsed file: index 0..n-1
read_csv(fs, path) ==
  [columns |-> fs[path].columns,
   index   |-> [i \in 1..Len(fs[path].rows) |-> i - 1],
   rows    |-> fs[path].rows]

\* df[column] = values, one value per row
assign_column(frame, column, values) ==
  [columns |-> frame.columns \cup {column},
   index   |-> frame.index,
   rows    |-> [i \in 1..Len(frame.rows) |->
                  [c \in frame.columns \cup {column} |->
                     IF c = column THEN values[i] ELSE frame.rows[i][c]]]]

\* the positions where the boolean mask df[column] == value is True, in order
RECURSIVE mask_positions(_, _, _, _)
mask_positions(rows, column, value, i) ==
  IF i > Len(rows) THEN <<>>
  ELSE IF rows[i][column] = value
  THEN <<i>> \o mask_positions(rows, column, value, i + 1)
  ELSE mask_positions(rows, column, value, i + 1)

\* df[df[column] == value]: boolean-mask selection
mask_eq(frame, column, value) ==
  LET pos == mask_positions(frame.rows, column, value, 1)
  IN [columns |-> frame.columns,
      index   |-> [k \in 1..Len(pos) |-> frame.index[pos[k]]],
      rows    |-> [k \in 1..Len(pos) |-> frame.rows[pos[k]]]]

Min2(a, b) == IF a < b THEN a ELSE b
Max2(a, b) == IF a > b THEN a ELSE b

\* a slice that takes the row at stop too, as label slicing does
iloc_slice_inclusive(frame, start, stop) ==
  LET lo == Min2(start, Len(frame.rows))
      hi == Max2(lo, Min2(stop + 1, Len(frame.rows)))
  IN [columns |-> frame.columns,
      index   |-> SubSeq(frame.index, lo + 1, hi),
      rows    |-> SubSeq(frame.rows, lo + 1, hi)]

\* df.iloc[start:stop] for start, stop >= 0: positional, clipped to the frame
iloc_slice(frame, start, stop) ==
  LET lo == Min2(start, Len(frame.rows))
      hi == Max2(lo, Min2(stop, Len(frame.rows)))
  IN [columns |-> frame.columns,
      index   |-> SubSeq(frame.index, lo + 1, hi),
      rows    |-> SubSeq(frame.rows, lo + 1, hi)]

\* the non-missing values of a column, in row order
RECURSIVE dropna(_, _, _)
dropna(frame, column, i) ==
  IF i > Len(frame.rows) THEN <<>>
  ELSE IF isna(column, frame.rows[i][column]) THEN dropna(frame, column, i + 1)
  ELSE <<frame.rows[i][column]>> \o dropna(frame, column, i + 1)

Range(s) == {s[i] : i \in 1..Len(s)}

Count(s, v) == Cardinality({i \in 1..Len(s) : s[i] = v})

\* Series.value_counts(): value -> number of occurrences, missing values dropped
value_counts(frame, column) ==
  LET vals == dropna(frame, column, 1)
  IN [v \in Range(vals) |-> Count(vals, v)]

\* the elements of a set in ascending order
RECURSIVE sort_values(_, _)
sort_values(column, S) ==
  IF S = {} THEN <<>>
  ELSE LET least == CHOOSE x \in S :
                      \A y \in S \ {x} : value_lt(column, x, y)
       IN <<least>> \o sort_values(column, S \ {least})

\* the values of a sequence, each once, in order of first appearance
RECURSIVE first_seen(_, _)
first_seen(s, seen) ==
  IF s = <<>> THEN <<>>
  ELSE IF Head(s) \in seen THEN first_seen(Tail(s), seen)
  ELSE <<Head(s)>> \o first_seen(Tail(s), seen \cup {Head(s)})

\* a mode that leaves the most frequent values in table order
mode_unsorted(frame, column) ==
  LET vals == dropna(frame, column, 1)
      counts == value_counts(frame, column)
      top == {v \in Range(vals) :
                \A w \in Range(vals) : counts[w] <= counts[v]}
  IN SelectSeq(first_seen(vals, {}), LAMBDA v : v \in top)

\* Series.mode(): the most frequent non-missing values, sorted ascending
mode(frame, column) ==
  LET vals == dropna(frame, column, 1)
      counts == value_counts(frame, column)
      top == {v \in Range(vals) :
                \A w \in Range(vals) : counts[w] <= counts[v]}
  IN sort_values(column, top)

----------------------------------------------------------------------------
(* The functions of Bikeshare.py *)

\* get_user_input returning whatever was typed
get_user_input_unchecked(line, valid_inputs) ==
  LET response == str_lower(str_strip(line))
  IN [returned |-> TRUE, response |-> response]

\* one pass of get_user_input's loop over the line that input() returned
get_user_input(line, valid_inputs) ==
  LET response == str_lower(str_strip(line))
  IN [returned |-> response \in valid_inputs, response |-> response]

\* load_data with the day mask taken on the unfiltered frame
load_data_day_mask_unfiltered(fs, c, m, d) ==
  LET df0 == read_csv(fs, CITY_DATA[c])
      n   == Len(df0.rows)
      df1 == assign_column(df0, "month",
               [i \in 1..n |->
                  str_lower(MONTH_NAMES[df0.rows[i]["Start Time"].month])])
      df2 == assign_column(df1, "day_of_week",
               [i \in 1..n |->
                  str_lower(DAY_NAMES[df0.rows[i]["Start Time"].weekday + 1])])
      df3 == assign_column(df2, "hour",
               [i \in 1..n |-> df0.rows[i]["Start Time"].hour])
      df4 == IF m # S_all THEN mask_eq(df3, "month", m) ELSE df3
      df5 == IF d # S_all THEN mask_eq(df3, "day_of_week", d) ELSE df4
  IN df5

\* load_data with the data files as an explicit argument
load_data(fs, c, m, d) ==
  LET df0 == read_csv(fs, CITY_DATA[c])
      n   == Len(df0.rows)
      df1 == assign_column(df0, "month",
               [i \in 1..n |->
                  str_lower(MONTH_NAMES[df0.rows[i]["Start Time"].month])])
      df2 == assign_column(df1, "day_of_week",
               [i \in 1..n |->
                  str_lower(DAY_NAMES[df0.rows[i]["Start Time"].weekday + 1])])
      df3 == assign_column(df2, "hour",
               [i \in 1..n |-> df0.rows[i]["Start Time"].hour])
      df4 == IF m # S_all THEN mask_eq(df3, "month", m) ELSE df3
      df5 == IF d # S_all THEN mask_eq(df4, "day_of_week", d) ELSE df4
  IN df5

\* what a session has printed so far
NoOutput ==
  [modes      |-> <<>>,   \* stat_name -> the value printed as most common
   total      |-> <<>>,   \* <<Total Travel Time>>
   mean       |-> <<>>,   \* <<Mean Travel Time>>
   user_types |-> <<>>,   \* <<User Type counts>>
   gender     |-> <<>>,   \* <<Gender counts>>
   birth      |-> <<>>,   \* label -> the year printed
   pages      |-> <<>>,   \* the raw-data slices printed
   notice     |-> ""]     \* the last get_user_input complaint

Put(f, k, v) == [x \in DOMAIN f \cup {k} |-> IF x = k THEN v ELSE f[x]]

\* display_statistics: df[column].mode()[0] raises KeyError on an empty mode
display_statistics(frame, column, stat_name, out) ==
  LET most_common == mode(frame, column)
  IN IF most_common = <<>>
     THEN [df |-> frame, out |-> out, err |-> "KeyError"]
     ELSE [df  |-> frame,
           out |-> [out EXCEPT !.modes = Put(@, stat_name, most_common[1])],
           err |-> "None"]

time_stats(frame, out) ==
  LET r1 == display_statistics(frame, "month", "Month", out)
      r2 == display_statistics(frame, "day_of_week", "Day of Week", r1.out)
      r3 == display_statistics(frame, "hour", "Start Hour", r2.out)
  IN IF r1.err # "None" THEN r1
     ELSE IF r2.err # "None" THEN r2
     ELSE r3

station_stats(frame, out) ==
  LET r1 == display_statistics(frame, "Start Station", "Start Station", out)
      r2 == display_statistics(frame, "End Station", "End Station", r1.out)
      combined == assign_column(frame, "Start-End Combination",
                    [i \in 1..Len(frame.rows) |->
                       object_add(object_add(frame.rows[i]["Start Station"], S_to),
                                  frame.rows[i]["End Station"])])
      r3 == display_statistics(combined, "Start-End Combination", "Trip", r2.out)
  IN IF r1.err # "None" THEN r1
     ELSE IF r2.err # "None" THEN r2
     ELSE r3

RECURSIVE series_sum(_, _, _)
series_sum(frame, column, i) ==
  IF i > Len(frame.rows) THEN 0
  ELSE frame.rows[i][column] + series_sum(frame, column, i + 1)

\* Series.mean(): NaN for an empty series
series_mean(frame, column) ==
  IF Len(frame.rows) = 0 THEN NaN
  ELSE <<series_sum(frame, column, 1), Len(frame.rows)>>

trip_duration_stats(frame, out) ==
  LET total_duration == series_sum(frame, "Trip Duration", 1)
      mean_duration == series_mean(frame, "Trip Duration")
  IN [df  |-> frame,
      out |-> [out EXCEPT !.total = <<total_duration>>,
                          !.mean = <<mean_duration>>],
      err |-> "None"]

\* Series.min(): missing values skipped, NaN when nothing is left
series_min(frame, column) ==
  LET sorted == sort_values(column, Range(dropna(frame, column, 1)))
  IN IF sorted = <<>> THEN NaN ELSE sorted[1]

\* Series.max(): missing values skipped, NaN when nothing is left
series_max(frame, column) ==
  LET sorted == sort_values(column, Range(dropna(frame, column, 1)))
  IN IF sorted = <<>> THEN NaN ELSE sorted[Len(sorted)]

\* the Birth Year block of user_stats; int(NaN) raises ValueError
birth_year_stats(frame, out) ==
  LET earliest == series_min(frame, "Birth Year")
      recent   == series_max(frame, "Birth Year")
      common   == mode(frame, "Birth Year")
      o1 == [out EXCEPT !.birth = Put(@, "Earliest", float_to_int(earliest))]
      o2 == [o1 EXCEPT !.birth = Put(@, "Most Recent", float_to_int(recent))]
      o3 == [o2 EXCEPT !.birth = Put(@, "Most Common", float_to_int(common[1]))]
  IN IF earliest = NaN THEN [df |-> frame, out |-> out, err |-> "ValueError"]
     ELSE IF recent = NaN THEN [df |-> frame, out |-> o1, err |-> "ValueError"]
     ELSE IF common = <<>> THEN [df |-> frame, out |-> o2, err |-> "KeyError"]
     ELSE [df |-> frame, out |-> o3, err |-> "None"]

user_stats(frame, out) ==
  LET o1 == [out EXCEPT !.user_types = <<value_counts(frame, "User Type")>>]
      o2 == IF "Gender" \in frame.columns
            THEN [o1 EXCEPT !.gender = <<value_counts(frame, "Gender")>>]
            ELSE o1
  IN IF "Birth Year" \in frame.columns
     THEN birth_year_stats(frame, o2)
     ELSE [df |-> frame, out |-> o2, err |-> "None"]

----------------------------------------------------------------------------
(* The data files and the lines typed by the user *)

BASE_COLUMNS ==
  {"Start Time", "Trip Duration", "Start Station", "End Station", "User Type"}

OPTIONAL_COLUMNS == {"Gender", "Birth Year"}

\* one parsed CSV record; Start Time as the calendar fields pd.to_datetime
\* gives it: month 1..12, weekday 0..6 (Monday = 0), hour 0..23
Record(mo, wd, hr, duration, start, end, user_type, gender, birth_year) ==
  [c \in BASE_COLUMNS \cup OPTIONAL_COLUMNS |->
     CASE c = "Start Time"    -> [month |-> mo, weekday |-> wd, hour |-> hr]
       [] c = "Trip Duration" -> duration
       [] c = "Start Station" -> start
       [] c = "End Station"   -> end
       [] c = "User Type"     -> user_type
       [] c = "Gender"        -> gender
       [] c = "Birth Year"    -> birth_year]

\* a parsed CSV file with the given columns
Csv(columns, records) ==
  [columns |-> columns,
   rows    |-> [i \in 1..Len(records) |-> [c \in columns |-> records[i][c]]]]

Subscriber == <<83, 117, 98, 115, 99, 114, 105, 98, 101, 114>>   \* 'Subscriber'
Customer == <<67, 117, 115, 116, 111, 109, 101, 114>>   \* 'Customer'
Male == <<77, 97, 108, 101>>   \* 'Male'
Female == <<70, 101, 109, 97, 108, 101>>   \* 'Female'

St_10th == <<49, 48, 116, 104, 32, 83, 116>>   \* '10th St'
St_2nd == <<50, 110, 100, 32, 83, 116>>   \* '2nd St'
St_A_dash_B == <<65, 45, 66>>   \* 'A-B'
St_A_and_B == <<65, 38, 66>>   \* 'A&B'
St_A_B == <<65, 32, 66>>   \* 'A B'

\* the files the interactive specification reads
DataFiles ==
  [path \in {CITY_DATA[c] : c \in DOMAIN CITY_DATA} |->
     IF path = CITY_DATA[S_chicago]
     THEN Csv(BASE_COLUMNS \cup OPTIONAL_COLUMNS,
            << Record(1, 0, 8, 100, St_2nd, St_10th, Subscriber, Male, Float(1990)),
               Record(1, 1, 17, 200, St_10th, St_2nd, Customer, NaN, NaN),
               Record(2, 0, 8, 300, St_A_B, St_A_dash_B, Subscriber, Female, Float(1985)),
               Record(2, 1, 17, 50, St_10th, St_A_B, Subscriber, Female, Float(1990)),
               Record(1, 0, 9, 60, St_2nd, NaN, Customer, Male, Float(1985)),
               Record(3, 2, 9, 70, St_A_dash_B, St_10th, Subscriber, Male, Float(1970)),
               Record(2, 1, 8, 80, St_A_B, St_A_dash_B, Customer, NaN, NaN) >>)
     ELSE IF path = CITY_DATA[S_new_york_city]
     THEN Csv(BASE_COLUMNS \cup OPTIONAL_COLUMNS,
            << Record(1, 0, 8, 100, St_10th, St_2nd, Subscriber, Male, Float(1990)),
               Record(1, 0, 9, 200, St_10th, St_2nd, Customer, NaN, NaN),
               Record(2, 1, 17, 50, St_A_dash_B, St_A_and_B, Customer, NaN, NaN) >>)
     ELSE Csv(BASE_COLUMNS,
            << Record(1, 0, 8, 100, St_10th, St_2nd, Subscriber, NaN, NaN),
               Record(1, 0, 8, 200, St_10th, St_2nd, Customer, NaN, NaN),
               Record(2, 1, 17, 50, St_A_dash_B, St_A_and_B, Subscriber, NaN, NaN) >>)]

\* the lines input() may return
Inputs ==
  { <<67, 104, 105, 99, 97, 103, 111>>,   \* 'Chicago'
    <<8195, 78, 101, 119, 32, 89, 111, 114, 8490, 32, 67, 105, 116, 121, 160>>,   \* '\u2003New Yor\u212a City\u00a0'
    <<87, 65, 83, 72, 73, 78, 71, 84, 79, 78>>,   \* 'WASHINGTON'
    <<65, 76, 76>>,   \* 'ALL'
    <<74, 97, 110, 117, 97, 114, 121>>,   \* 'January'
    <<102, 101, 98, 114, 117, 97, 114, 121, 32>>,   \* 'february '
    <<106, 117, 110, 101>>,   \* 'june'
    <<106, 117, 108, 121>>,   \* 'july'
    <<77, 111, 110, 100, 97, 121>>,   \* 'Monday'
    <<116, 117, 101, 115, 100, 97, 121, 11>>,   \* 'tuesday\v'
    <<89, 69, 83, 13>>,   \* 'YES\r'
    <<12, 121, 101, 115>>,   \* '\fyes'
    <<13, 110, 111>>,   \* '\rno'
    <<110, 111>>,   \* 'no'
    <<>>,   \* ''
    <<931, 913, 931>> }   \* '\u03a3\u0391\u03a3'

\* the records the function-level specification builds its tables from
RecordPool ==
  { Record(1, 0, 8, 100, St_10th, St_2nd, Subscriber, Male, Float(1990)),
    Record(2, 1, 17, 200, NaN, NaN, Customer, NaN, NaN),
    Record(1, 1, 17, 50, St_A_B, St_A_dash_B, Subscriber, Female, Float(1985)),
    Record(12, 0, 8, 0, NaN, St_2nd, Customer, Male, Float(1985)),
    Record(1, 6, 9, 70, St_10th, St_A_B, Subscriber, Female, Float(1990)) }

\* every table of at most MaxRows records, with or without the optional columns
CsvInputs ==
  { Csv(columns, records) :
      columns \in {BASE_COLUMNS, BASE_COLUMNS \cup OPTIONAL_COLUMNS},
      records \in UNION {[1..k -> RecordPool] : k \in 0..MaxRows} }

\* the month arguments load_data is called with at function level
MonthArgs ==
  { S_all, <<106, 97, 110, 117, 97, 114, 121>>,   \* 'january'
    <<102, 101, 98, 114, 117, 97, 114, 121>>,   \* 'february'
    <<106, 117, 110, 101>>,   \* 'june'
    <<106, 117, 108, 121>>,   \* 'july'
    <<100, 101, 99, 101, 109, 98, 101, 114>>,   \* 'december'
    <<106, 97, 110>>,   \* 'jan'
    <<74, 97, 110, 117, 97, 114, 121>> }   \* 'January'

\* the day arguments load_data is called with at function level
DayArgs ==
  { S_all, <<109, 111, 110, 100, 97, 121>>,   \* 'monday'
    <<116, 117, 101, 115, 100, 97, 121>>,   \* 'tuesday'
    <<115, 117, 110, 100, 97, 121>>,   \* 'sunday'
    <<102, 117, 110, 100, 97, 121>> }   \* 'funday'

EmptyFrame == [columns |-> {}, index |-> <<>>, rows |-> <<>>]

----------------------------------------------------------------------------
(* The interactive program: main *)

INVALID_INPUT == "Invalid input. Please try again."

Init ==
  /\ files = DataFiles
  /\ pc = "get_city"
  /\ city = <<>>
  /\ month = <<>>
  /\ day = <<>>
  /\ df = EmptyFrame
  /\ row_index = 0
  /\ raw = <<>>
  /\ stdout = NoOutput
  /\ err = "None"

\* get_filters, first prompt: one line read by get_user_input
GetCity ==
  /\ pc = "get_city"
  /\ \E line \in Inputs :
       LET r == get_user_input(line, DOMAIN CITY_DATA)
       IN /\ raw' = line
          /\ IF r.returned
             THEN /\ city' = r.response
                  /\ pc' = "get_month"
                  /\ stdout' = [stdout EXCEPT !.notice = ""]
             ELSE /\ stdout' = [stdout EXCEPT !.notice = INVALID_INPUT]
                  /\ UNCHANGED <<city, pc>>
  /\ UNCHANGED <<files, month, day, df, row_index, err>>

\* get_filters, second prompt
GetMonth ==
  /\ pc = "get_month"
  /\ \E line \in Inputs :
       LET r == get_user_input(line, VALID_MONTHS)
       IN /\ raw' = line
          /\ IF r.returned
             THEN /\ month' = r.response
                  /\ pc' = "get_day"
                  /\ stdout' = [stdout EXCEPT !.notice = ""]
             ELSE /\ stdout' = [stdout EXCEPT !.notice = INVALID_INPUT]
                  /\ UNCHANGED <<month, pc>>
  /\ UNCHANGED <<files, city, day, df, row_index, err>>

\* get_filters, third prompt, and its return to main
GetDay ==
  /\ pc = "get_day"
  /\ \E line \in Inputs :
       LET r == get_user_input(line, VALID_DAYS)
       IN /\ raw' = line
          /\ IF r.returned
             THEN /\ day' = r.response
                  /\ pc' = "load_data"
                  /\ stdout' = [stdout EXCEPT !.notice = ""]
             ELSE /\ stdout' = [stdout EXCEPT !.notice = INVALID_INPUT]
                  /\ UNCHANGED <<day, pc>>
  /\ UNCHANGED <<files, city, month, df, row_index, err>>

\* main: df = load_data(city, month, day)
LoadData ==
  /\ pc = "load_data"
  /\ df' = load_data(files, city, month, day)
  /\ pc' = "time_stats"
  /\ UNCHANGED <<files, city, month, day, row_index, raw, stdout, err>>

\* main's call of a statistics function: its result, or the uncaught
\* exception that ends the program
Continue(r, next) ==
  /\ df' = r.df
  /\ stdout' = r.out
  /\ err' = r.err
  /\ pc' = IF r.err = "None" THEN next ELSE "crashed"
  /\ UNCHANGED <<files, city, month, day, row_index, raw>>

TimeStats ==
  /\ pc = "time_stats"
  /\ Continue(time_stats(df, stdout), "station_stats")

StationStats ==
  /\ pc = "station_stats"
  /\ Continue(station_stats(df, stdout), "trip_duration_stats")

TripDurationStats ==
  /\ pc = "trip_duration_stats"
  /\ Continue(trip_duration_stats(df, stdout), "user_stats")

UserStats ==
  /\ pc = "user_stats"
  /\ Continue(user_stats(df, stdout), "display_raw_data")

\* display_raw_data: one line read by the loop condition, then the loop body
DisplayRawData ==
  /\ pc = "display_raw_data"
  /\ \E line \in Inputs :
       LET r == get_user_input(line, YES_NO)
       IN /\ raw' = line
          /\ IF ~r.returned
             THEN /\ stdout' = [stdout EXCEPT !.notice = INVALID_INPUT]
                  /\ UNCHANGED <<row_index, pc>>
             ELSE IF r.response = S_yes
             THEN /\ Len(stdout.pages) < MaxPages
                  /\ stdout' =
                       [stdout EXCEPT
                          !.notice = "",
                          !.pages = Append(@,
                             iloc_slice(df, row_index, row_index + batch_size))]
                  /\ row_index' = row_index + batch_size
                  /\ pc' = pc
             ELSE /\ stdout' = [stdout EXCEPT !.notice = ""]
                  /\ row_index' = 0
                  /\ pc' = "restart"
  /\ UNCHANGED <<files, city, month, day, df, err>>

\* main: the restart prompt
Restart ==
  /\ pc = "restart"
  /\ \E line \in Inputs :
       LET r == get_user_input(line, YES_NO)
       IN /\ raw' = line
          /\ IF ~r.returned
             THEN /\ stdout' = [stdout EXCEPT !.notice = INVALID_INPUT]
                  /\ pc' = pc
             ELSE IF r.response = S_no
             THEN /\ stdout' = [stdout EXCEPT !.notice = ""]
                  /\ pc' = "done"
             ELSE /\ stdout' = NoOutput
                  /\ pc' = "get_city"
  /\ UNCHANGED <<files, city, month, day, df, row_index, err>>

Next ==
  \/ GetCity
  \/ GetMonth
  \/ GetDay
  \/ LoadData
  \/ TimeStats
  \/ StationStats
  \/ TripDurationStats
  \/ UserStats
  \/ DisplayRawData
  \/ Restart

Spec == Init /\ [][Next]_vars

----------------------------------------------------------------------------
(* The functions called one at a time on bounded inputs *)

InitCore ==
  /\ \E csv \in CsvInputs :
       files = [path \in {CITY_DATA[c] : c \in DOMAIN CITY_DATA} |-> csv]
  /\ pc = "call_load_data"
  /\ city = S_chicago
  /\ month \in MonthArgs
  /\ day \in DayArgs
  /\ df = EmptyFrame
  /\ row_index = 0
  /\ raw = <<>>
  /\ stdout = NoOutput
  /\ err = "None"

\* load_data(city, month, day) returns
CallLoadData ==
  /\ pc = "call_load_data"
  /\ df' = load_data(files, city, month, day)
  /\ pc' = "loaded"
  /\ UNCHANGED <<files, city, month, day, row_index, raw, stdout, err>>

\* a function called on the loaded table returns or raises
Return(r, fn) ==
  /\ df' = r.df
  /\ stdout' = r.out
  /\ err' = r.err
  /\ pc' = fn
  /\ UNCHANGED <<files, city, month, day, row_index, raw>>

CallTimeStats ==
  /\ pc = "loaded"
  /\ Return(time_stats(df, stdout), "after_time_stats")

CallStationStats ==
  /\ pc = "loaded"
  /\ Return(station_stats(df, stdout), "after_station_stats")

CallTripDurationStats ==
  /\ pc = "loaded"
  /\ Return(trip_duration_stats(df, stdout), "after_trip_duration_stats")

CallUserStats ==
  /\ pc = "loaded"
  /\ Return(user_stats(df, stdout), "after_user_stats")

NextCore ==
  \/ CallLoadData
  \/ CallTimeStats
  \/ CallStationStats
  \/ CallTripDurationStats
  \/ CallUserStats

SpecCore == InitCore /\ [][NextCore]_vars

----------------------------------------------------------------------------
(* Vocabulary of the properties *)

\* the twelve lowercase month names
TWELVE_MONTHS ==
  << <<106, 97, 110, 117, 97, 114, 121>>,   \* 'january'
     <<102, 101, 98, 114, 117, 97, 114, 121>>,   \* 'february'
     <<109, 97, 114, 99, 104>>,   \* 'march'
     <<97, 112, 114, 105, 108>>,   \* 'april'
     <<109, 97, 121>>,   \* 'may'
     <<106, 117, 110, 101>>,   \* 'june'
     <<106, 117, 108, 121>>,   \* 'july'
     <<97, 117, 103, 117, 115, 116>>,   \* 'august'
     <<115, 101, 112, 116, 101, 109, 98, 101, 114>>,   \* 'september'
     <<111, 99, 116, 111, 98, 101, 114>>,   \* 'october'
     <<110, 111, 118, 101, 109, 98, 101, 114>>,   \* 'november'
     <<100, 101, 99, 101, 109, 98, 101, 114>> >>   \* 'december'

\* the seven lowercase weekday names, Monday first
SEVEN_DAYS ==
  << <<109, 111, 110, 100, 97, 121>>,   \* 'monday'
     <<116, 117, 101, 115, 100, 97, 121>>,   \* 'tuesday'
     <<119, 101, 100, 110, 101, 115, 100, 97, 121>>,   \* 'wednesday'
     <<116, 104, 117, 114, 115, 100, 97, 121>>,   \* 'thursday'
     <<102, 114, 105, 100, 97, 121>>,   \* 'friday'
     <<115, 97, 116, 117, 114, 100, 97, 121>>,   \* 'saturday'
     <<115, 117, 110, 100, 97, 121>> >>   \* 'sunday'

\* the records of the file the session's table was loaded from
SourceRows == files[CITY_DATA[city]].rows

\* record i of the file passes the month and day filters
Selected(i) ==
  /\ month = S_all
       \/ TWELVE_MONTHS[SourceRows[i]["Start Time"].month] = month
  /\ day = S_all
       \/ SEVEN_DAYS[SourceRows[i]["Start Time"].weekday + 1] = day

ValidFilters ==
  /\ month \in Range(TWELVE_MONTHS) \cup {S_all}
  /\ day \in Range(SEVEN_DAYS) \cup {S_all}

\* the columns of that file
SourceColumns == files[CITY_DATA[city]].columns

----------------------------------------------------------------------------
(* C1 *)

\* C1: for valid (month, day) the table load_data returns is exactly the
\* records of the file that pass the month filter and the day filter, each
\* once and in file order; it is never longer than the file, and with
\* ("all", "all") it is the whole file.
C1_FilterIsOrderedSubsequence ==
  (pc = "loaded" /\ ValidFilters) =>
     /\ Len(df.index) = Len(df.rows)
     /\ \A k \in 1..(Len(df.index) - 1) : df.index[k] < df.index[k + 1]
     /\ Range(df.index) = {i - 1 : i \in {j \in 1..Len(SourceRows) : Selected(j)}}
     /\ \A k \in 1..Len(df.rows) :
          /\ \A c \in files[CITY_DATA[city]].columns :
               df.rows[k][c] = SourceRows[df.index[k] + 1][c]
          /\ df.rows[k]["month"] =
               TWELVE_MONTHS[SourceRows[df.index[k] + 1]["Start Time"].month]
          /\ df.rows[k]["day_of_week"] =
               SEVEN_DAYS[SourceRows[df.index[k] + 1]["Start Time"].weekday + 1]
     /\ Len(df.rows) <= Len(SourceRows)
     /\ (month = S_all /\ day = S_all) => Len(df.rows) = Len(SourceRows)

\* both filters active, some records kept and some dropped
C1_Witness ==
  /\ pc = "loaded"
  /\ ValidFilters
  /\ month # S_all
  /\ day # S_all
  /\ Len(df.rows) >= 2
  /\ Len(df.rows) < Len(SourceRows)
  /\ df.index[1] > 0

----------------------------------------------------------------------------
(* C2 *)

\* C2: load_data called with a month that is neither "all" nor one of the
\* twelve month names, or such a day, ends in InvalidFilterError and returns
\* no table.
C2_InvalidFilterIsAnError ==
  (pc = "loaded" /\ ~ValidFilters) =>
     (err = "InvalidFilterError" /\ df = EmptyFrame)

----------------------------------------------------------------------------
(* C3 *)

\* C3: once the mode statistics have been asked of a table with zero rows,
\* the outcome is a NoDataError the caller reports, and the run has not
\* crashed.
C3_EmptyTableIsNoDataError ==
  (/\ Len(df.rows) = 0
   /\ pc \in {"station_stats", "trip_duration_stats", "user_stats",
              "display_raw_data", "restart", "done", "crashed"}) =>
     (err = "NoDataError" /\ pc # "crashed")

----------------------------------------------------------------------------
(* C4 *)

RECURSIVE SumDurations(_)
SumDurations(rows) ==
  IF rows = <<>> THEN 0 ELSE Head(rows)["Trip Duration"] + SumDurations(Tail(rows))

\* C4: trip_duration_stats on a table with zero rows reports total 0 and
\* signals NoDataError for the mean, never printing NaN or a number for it;
\* on a table with rows it reports the sum and the arithmetic mean.
C4_DurationStats ==
  pc = "after_trip_duration_stats" =>
     /\ stdout.total = <<SumDurations(df.rows)>>
     /\ IF Len(df.rows) = 0
        THEN stdout.mean = <<>> /\ err = "NoDataError"
        ELSE /\ err = "None"
             /\ Len(stdout.mean) = 1
             /\ stdout.mean[1] # NaN
             /\ stdout.mean[1][1] * Len(df.rows)
                  = SumDurations(df.rows) * stdout.mean[1][2]

----------------------------------------------------------------------------
(* C5 *)

\* C5: a session that has ended (at the restart prompt, or with the program
\* over) has reported the total duration and the user-type counts, whatever
\* the filtered table was.
C5_SessionReportsDurationAndUsers ==
  pc \in {"restart", "done", "crashed"} =>
     (stdout.total # <<>> /\ stdout.user_types # <<>>)

----------------------------------------------------------------------------
(* C6 *)

\* C6: no step of time_stats, station_stats, trip_duration_stats, user_stats
\* or display_raw_data changes the table main got from load_data: same rows,
\* same columns.
C6_StatisticsLeaveTableAlone ==
  [][(pc \in {"time_stats", "station_stats", "trip_duration_stats",
              "user_stats", "display_raw_data"}) => (df' = df)]_vars

----------------------------------------------------------------------------
(* C7 *)

UserStatsRan ==
  \/ pc \in {"display_raw_data", "restart", "done"}
  \/ pc = "crashed" /\ stdout.user_types # <<>>

\* C7: after user_stats, the gender counts have been printed exactly when the
\* dataset has the Gender column, and earliest, most recent and most common
\* birth year have been printed exactly when it has the Birth Year column.
C7_OptionalBlocks ==
  UserStatsRan =>
     /\ ("Gender" \in SourceColumns) <=> (stdout.gender # <<>>)
     /\ IF "Birth Year" \in SourceColumns
        THEN DOMAIN stdout.birth = {"Earliest", "Most Recent", "Most Common"}
        ELSE stdout.birth = <<>>

----------------------------------------------------------------------------
(* C8 *)

\* rows [(k-1)*batch_size, k*batch_size) of the session's table, clipped
ExpectedPage(k) ==
  LET offset == (k - 1) * batch_size
      length == Max2(0, Min2(batch_size, Len(df.rows) - offset))
  IN [index |-> [j \in 1..length |-> df.index[offset + j]],
      rows  |-> [j \in 1..length |-> df.rows[offset + j]]]

\* C8: paging raises nothing, and the k-th page printed holds exactly the
\* rows [(k-1)*batch_size, k*batch_size) of the table in table order, clipped
\* to the table (empty at or past its end); the offset advances by
\* batch_size with every page.
C8_PagesAreConsecutiveSlices ==
  pc \in {"display_raw_data", "restart", "done"} =>
     /\ err = "None"
     /\ \A k \in 1..Len(stdout.pages) :
          /\ stdout.pages[k].rows = ExpectedPage(k).rows
          /\ stdout.pages[k].index = ExpectedPage(k).index
          /\ stdout.pages[k].columns = df.columns
     /\ pc = "display_raw_data" => row_index = batch_size * Len(stdout.pages)

\* a full page, then a clipped page, then a page past the end of the table
C8_Witness ==
  /\ pc = "display_raw_data"
  /\ Len(stdout.pages) = 3
  /\ Len(stdout.pages[1].rows) = batch_size
  /\ Len(stdout.pages[2].rows) \in 1..(batch_size - 1)
  /\ Len(stdout.pages[3].rows) = 0
  /\ row_index > Len(df.rows)

----------------------------------------------------------------------------
(* C9 *)

\* the column each printed "Most Common" line is the mode of
ModeColumn(stat_name) ==
  CASE stat_name = "Month"       -> "month"
    [] stat_name = "Day of Week" -> "day_of_week"
    [] stat_name = "Start Hour"  -> "hour"
    [] stat_name = "Trip"        -> "Start-End Combination"
    [] OTHER                     -> stat_name

\* the values of a column that are not missing
Present(column) ==
  {v \in {df.rows[i][column] : i \in 1..Len(df.rows)} : ~isna(column, v)}

Freq(column, v) ==
  Cardinality({i \in 1..Len(df.rows) : df.rows[i][column] = v})

\* v is a most frequent value of the column, and the least of them in the
\* order of the column's type
LeastMostFrequent(column, v) ==
  /\ v \in Present(column)
  /\ \A w \in Present(column) :
       /\ Freq(column, w) <= Freq(column, v)
       /\ (Freq(column, w) = Freq(column, v) /\ w # v) => value_lt(column, v, w)

\* C9: every mode printed for a table (month, day of week, hour, start
\* station, end station, trip, birth year) is one of the most frequent values
\* of its column, and among several it is always the least one: one rule for
\* all seven, a function of the table alone.
C9_ModeTieBreak ==
  /\ \A s \in DOMAIN stdout.modes :
       LeastMostFrequent(ModeColumn(s), stdout.modes[s])
  /\ "Most Common" \in DOMAIN stdout.birth =>
       \E x \in Present("Birth Year") :
          /\ LeastMostFrequent("Birth Year", x)
          /\ stdout.birth["Most Common"] = x[1] \div x[2]
  /\ (pc = "after_time_stats" /\ Len(df.rows) > 0) =>
       DOMAIN stdout.modes = {"Month", "Day of Week", "Start Hour"}
  /\ (pc = "after_station_stats"
        /\ \E i \in 1..Len(df.rows) :
              df.rows[i]["Start Station"] # NaN /\ df.rows[i]["End Station"] # NaN) =>
       DOMAIN stdout.modes = {"Start Station", "End Station", "Trip"}
  /\ (pc = "after_user_stats" /\ "Birth Year" \in df.columns
        /\ Present("Birth Year") # {}) =>
       "Most Common" \in DOMAIN stdout.birth

\* a genuine tie for the most frequent trip, in a table that also has a trip
\* with a missing station, in which the value printed is not the one met
\* first in the table
C9_Witness ==
  /\ pc = "after_station_stats"
  /\ "Trip" \in DOMAIN stdout.modes
  /\ df.rows[1]["Start-End Combination"] # NaN
  /\ \E i \in 1..Len(df.rows) : df.rows[i]["Start-End Combination"] = NaN
  /\ stdout.modes["Trip"] # df.rows[1]["Start-End Combination"]
  /\ Freq("Start-End Combination", stdout.modes["Trip"])
       = Freq("Start-End Combination", df.rows[1]["Start-End Combination"])

----------------------------------------------------------------------------
(* C10 *)

\* the line last read, as get_user_input compares it
LastResponse == str_lower(str_strip(raw))

\* the table is the one load_data builds from the city's file: the file's
\* columns and the three derived ones, rows taken from the file
FreshlyLoaded(frame) ==
  /\ frame.columns = SourceColumns \cup {"month", "day_of_week", "hour"}
  /\ \A k \in 1..Len(frame.rows) :
       \A c \in SourceColumns :
          frame.rows[k][c] = SourceRows[frame.index[k] + 1][c]

\* C10: whatever is typed, the city main holds is a key of CITY_DATA, the
\* month one of january..june or all, the day one of the seven weekdays or
\* all, so load_data is called with nothing else; the loop is left exactly
\* by the answer 'no' to the restart prompt, and the answer 'yes' starts a
\* new session, whose table is loaded afresh.
C10_ValidatedInputsAndRestart ==
  /\ [](/\ pc # "get_city" =>
             city \in {S_chicago, S_new_york_city, S_washington}
        /\ pc \notin {"get_city", "get_month"} =>
             month \in Range(SubSeq(TWELVE_MONTHS, 1, 6)) \cup {S_all}
        /\ pc \notin {"get_city", "get_month", "get_day"} =>
             day \in Range(SEVEN_DAYS) \cup {S_all})
  /\ [][(pc # "done" /\ pc' = "done") =>
          (pc = "restart" /\ str_lower(str_strip(raw')) = S_no)]_vars
  /\ [][(pc = "restart" /\ pc' # "restart" /\ pc' # "done") =>
          (pc' = "get_city" /\ str_lower(str_strip(raw')) = S_yes)]_vars
  /\ [][(pc = "restart" /\ str_lower(str_strip(raw')) = S_no) =>
          pc' = "done"]_vars
  /\ [][(pc # "time_stats" /\ pc' = "time_stats") =>
          (pc = "load_data" /\ FreshlyLoaded(df'))]_vars

\* a second session, begun by answering 'yes' (the table of the first is
\* still held), is about to call load_data, and the line typed for its day
\* was accepted although not in canonical form
C10_Witness ==
  /\ pc = "load_data"
  /\ "Start-End Combination" \in df.columns
  /\ raw # day
  /\ LastResponse = day
  /\ city = S_washington
  /\ SourceColumns \cup {"month", "day_of_week", "hour"} # df.columns

====
